---- MODULE Spec2Model ----
(***************************************************************************)
(* Skinned-mesh joint-matrix packing and double buffering of               *)
(* crates/bevy_pbr/src/render/skin.rs: extract_skins, prepare_skins,       *)
(* SkinIndex, SkinIndices, SkinUniforms, skins_use_uniform_buffers.        *)
(***************************************************************************)
EXTENDS Integers, Sequences, FiniteSets, TLC

\* pub const MAX_JOINTS: usize = 256;
MAX_JOINTS == 256

\* size_of::<Mat4>(): sixteen f32.
MAT4_SIZE == 64

\* Number of skinned mesh instances the query yields, in iteration order 1..N.
NumInstances == 2

\* Number of extractions a run performs.
MaxFrames == 3

Entities == 1..NumInstances

Min(a, b) == IF a < b THEN a ELSE b
Max(a, b) == IF a < b THEN b ELSE a

(***************************************************************************)
(* Matrices are symbolic.  The k-th entry of skin.joints of instance e is  *)
(* the joint entity JointEntity(e, k); the k-th inverse bind pose of its   *)
(* asset is Bindpose(e, k).  joint.affine() * bindpose is a code of the    *)
(* pair of the two, so a product remembers which joint met which bind      *)
(* pose; no product is the zero matrix.                                    *)
(***************************************************************************)
JointEntity(e, k) == e * 1000 + k
Bindpose(e, k) == e * 1000 + k
Mat4_ZERO == 0
affine_mul(joint, bindpose) == joint * 10000 + bindpose

\* Binds x to the value of v, evaluated once, in F(x).
Bind(v, F(_)) == CHOOSE r \in { F(x) : x \in {v} } : TRUE

(***************************************************************************)
(* The main-world input of one extraction, per instance:                   *)
(*   visible    ViewVisibility::get()                                      *)
(*   loaded     Assets::get(&skin.inverse_bindposes) is Some               *)
(*   joints     skin.joints.len()                                          *)
(*   bindposes  length of the inverse bind pose collection                 *)
(*   missing    index in skin.joints of a joint entity without a           *)
(*              GlobalTransform (0: every joint resolves)                  *)
(* An invisible or unloaded instance is skipped before its skin is read,   *)
(* so one representative of each is enough.  A skin has fewer joints than  *)
(* MAX_JOINTS or more, its first joint missing or none, and as many bind   *)
(* poses as joints or fewer.                                               *)
(***************************************************************************)
JointCounts == {3, MAX_JOINTS + 1}

Skins ==
    { [visible |-> TRUE, loaded |-> TRUE, joints |-> n, bindposes |-> b, missing |-> m] :
        n \in JointCounts, b \in JointCounts, m \in {0, 1} }

InstanceInputs ==
    { s \in Skins : s.bindposes = s.joints \/ (s.bindposes < s.joints /\ s.missing = 0) }
    \cup { [visible |-> FALSE, loaded |-> TRUE, joints |-> 3, bindposes |-> 3, missing |-> 0],
           [visible |-> TRUE, loaded |-> FALSE, joints |-> 3, bindposes |-> 3, missing |-> 0] }

Scenes == [Entities -> InstanceInputs]

(***************************************************************************)
(* SkinIndex                                                               *)
(***************************************************************************)
\* (start * size_of::<Mat4>()) as u32: the low 32 bits of start * 64, which
\* are the low 26 bits of start, times 64.
SkinIndex_new(start) == [byte_offset |-> (start % 67108864) * MAT4_SIZE]

SkinIndex_index(self) == self.byte_offset \div MAT4_SIZE

(***************************************************************************)
(* RawBufferVec<Mat4>: the CPU-side Vec (values), the capacity of the GPU  *)
(* buffer and the contents of the GPU buffer (gpu, Len(gpu) = capacity).   *)
(***************************************************************************)
RawBufferVec_new == [values |-> <<>>, capacity |-> 0, gpu |-> <<>>]

RawBufferVec_clear(self) == [self EXCEPT !.values = <<>>]

\* Reallocates when the requested capacity exceeds the buffer's.
RawBufferVec_reserve(self, capacity) ==
    IF capacity > self.capacity
    THEN [self EXCEPT !.capacity = capacity,
                      !.gpu = [k \in 1..capacity |-> Mat4_ZERO]]
    ELSE self

\* Copies values to the start of the GPU buffer.
RawBufferVec_write_buffer(self) ==
    IF self.values = <<>>
    THEN self
    ELSE Bind(RawBufferVec_reserve(self, Len(self.values)),
              LAMBDA r : [r EXCEPT !.gpu =
                  r.values \o SubSeq(r.gpu, Len(r.values) + 1, r.capacity)])

(***************************************************************************)
(* skins_use_uniform_buffers: OnceLock::get_or_init.                       *)
(***************************************************************************)
\* The cell is <<>> while uninitialised and <<b>> once it holds b.
OnceLock_new == <<>>

\* A cell that forgets it was set: every call runs the closure.
OnceLock_runs_init_always(cell) == TRUE

\* get_or_init runs its closure only on an unset cell.
OnceLock_runs_init(cell) == cell = OnceLock_new

OnceLock_get_or_init(cell, init) == IF OnceLock_runs_init(cell) THEN <<init>> ELSE cell

\* The cell after the call; the call returns its content, cell[1].
skins_use_uniform_buffers(cell, max_storage_buffers_per_shader_stage) ==
    OnceLock_get_or_init(cell, max_storage_buffers_per_shader_stage = 0)

VARIABLES
    skin_indices,               \* SkinIndices: [current, prev], maps entity -> SkinIndex
    uniform,                    \* SkinUniforms: [current_buffer, prev_buffer]
    SKINS_USE_UNIFORM_BUFFERS,  \* the OnceLock<bool>
    limits,                     \* max_storage_buffers_per_shader_stage of the device
    scene,                      \* the main-world input of the last extraction
    locals,                     \* extract_skins' last_start and buffer length at loop exit
    snapshot,                   \* what current was at the end of the last extractions
    frame,                      \* number of extractions so far
    ran,                        \* the system that ran last
    detector,                   \* the calls of skins_use_uniform_buffers and their threads
    world,                      \* main world: SkinnedMesh and NoAutomaticBatching components
    probe                       \* a start position and the SkinIndex made of it

\* The state outside the render world's skin resources.
aux == <<detector, world, probe>>

vars == <<skin_indices, uniform, SKINS_USE_UNIFORM_BUFFERS, limits, scene, locals,
          snapshot, frame, ran, detector, world, probe>>

EmptyMap == [x \in {} |-> 0]

(***************************************************************************)
(* extract_skins                                                           *)
(***************************************************************************)
\* Mutant of swap_indices: the new current map is not cleared.
swap_indices_no_clear(si) == [current |-> si.prev, prev |-> si.current]

\* mem::swap(&mut skin_indices.current, &mut skin_indices.prev);
\* skin_indices.current.clear();
swap_indices(si) == [current |-> EmptyMap, prev |-> si.current]

\* Mutant of swap_buffers: the buffers are not swapped.
swap_buffers_no_swap(u) ==
    [current_buffer |-> RawBufferVec_clear(u.current_buffer),
     prev_buffer    |-> u.prev_buffer]

\* Mutant of swap_buffers: the new current buffer is not cleared.
swap_buffers_no_clear(u) ==
    [current_buffer |-> u.prev_buffer,
     prev_buffer    |-> u.current_buffer]

\* mem::swap(&mut uniform.current_buffer, &mut uniform.prev_buffer);
\* uniform.current_buffer.clear();
swap_buffers(u) ==
    [current_buffer |-> RawBufferVec_clear(u.prev_buffer),
     prev_buffer    |-> u.current_buffer]

\* joints.iter_many(&skin.joints): skips the entities whose fetch fails.
iter_many(e, skin) ==
    SelectSeq([k \in 1..skin.joints |-> JointEntity(e, k)],
              LAMBDA j : skin.missing = 0 \/ j # JointEntity(e, skin.missing))

\* .zip(inverse_bindposes.iter()).take(MAX_JOINTS).map(|(joint, bindpose)| ...)
joint_matrices(e, skin) ==
    Bind(iter_many(e, skin), LAMBDA js :
        [k \in 1..Min(Min(Len(js), skin.bindposes), MAX_JOINTS) |->
            affine_mul(js[k], Bindpose(e, k))])

\* Mutant of extract_target: the joint count is not clamped.
extract_target_unclamped(start, skin) == start + skin.joints

\* let target = start + skin.joints.len().min(MAX_JOINTS);
extract_target(start, skin) == start + Min(skin.joints, MAX_JOINTS)

\* Mutant of pad_to_alignment: no padding is pushed.
pad_to_alignment_none(buffer) == buffer

\* while buffer.len() % 4 != 0 { buffer.push(Mat4::ZERO) }
pad_to_alignment(buffer) ==
    buffer \o [k \in 1..((4 - (Len(buffer) % 4)) % 4) |-> Mat4_ZERO]

\* Mutant of align: pads whatever the capability flag says.
align_always(buffer, use_uniform) == pad_to_alignment(buffer)

\* if skins_use_uniform_buffers { ... }
align(buffer, use_uniform) ==
    IF use_uniform THEN pad_to_alignment(buffer) ELSE buffer

\* Mutant of truncate: the partial contribution stays in the buffer.
truncate_nothing(buffer, start) == buffer

\* Mutant of truncate: the whole buffer is dropped.
truncate_to_empty(buffer, start) == <<>>

\* buffer.truncate(start)
truncate(buffer, start) == SubSeq(buffer, 1, start)

\* One iteration of the loop over the query, for entity e; st holds the
\* values of current_buffer, skin_indices.current and last_start.
extract_one(st, e, skin, use_uniform) ==
    IF ~skin.visible THEN st
    ELSE IF ~skin.loaded THEN st
    ELSE
      LET start  == Len(st.buffer)
          target == extract_target(start, skin)
      IN Bind(st.buffer \o joint_matrices(e, skin), LAMBDA extended :
           IF Len(extended) # target
           THEN [st EXCEPT !.buffer = truncate(extended, start)]
           ELSE [buffer     |-> align(extended, use_uniform),
                 current    |-> [x \in DOMAIN st.current \cup {e} |->
                                    IF x = e THEN SkinIndex_new(start) ELSE st.current[x]],
                 last_start |-> Max(st.last_start, start)])

RECURSIVE extract_loop(_, _, _, _)
extract_loop(st, e, sc, use_uniform) ==
    IF e \notin DOMAIN sc THEN st
    ELSE Bind(extract_one(st, e, sc[e], use_uniform),
              LAMBDA next : extract_loop(next, e + 1, sc, use_uniform))

\* Mutant of pad_out: no trailing padding is pushed.
pad_out_nothing(buffer, last_start) == buffer

\* Mutant of pad_out: pads the buffer to MAX_JOINTS matrices in all.
pad_out_ignoring_last_start(buffer, last_start) ==
    IF Len(buffer) < MAX_JOINTS
    THEN buffer \o [k \in 1..(MAX_JOINTS - Len(buffer)) |-> Mat4_ZERO]
    ELSE buffer

\* while uniform.current_buffer.len() - last_start < MAX_JOINTS { push(ZERO) }
pad_out(buffer, last_start) ==
    IF Len(buffer) - last_start < MAX_JOINTS
    THEN buffer \o [k \in 1..(MAX_JOINTS - (Len(buffer) - last_start)) |-> Mat4_ZERO]
    ELSE buffer

\* extract_skins on the main-world input sc.
extract_scene(sc) ==
    /\ \E cell \in {skins_use_uniform_buffers(SKINS_USE_UNIFORM_BUFFERS, limits)} :
       \E si \in {swap_indices(skin_indices)} :
       \E u \in {swap_buffers(uniform)} :
       \E st \in {extract_loop([buffer     |-> u.current_buffer.values,
                                current    |-> si.current,
                                last_start |-> 0], 1, sc, cell[1])} :
       \E final \in {pad_out(st.buffer, st.last_start)} :
           /\ SKINS_USE_UNIFORM_BUFFERS' = cell
           /\ skin_indices' = [si EXCEPT !.current = st.current]
           /\ uniform' = [u EXCEPT !.current_buffer.values = final]
           /\ scene' = sc
           /\ locals' = [last_start |-> st.last_start, len |-> Len(st.buffer)]
           /\ snapshot' = [current |-> [indices |-> st.current, buffer |-> final],
                           prev    |-> snapshot.current,
                           older   |-> DOMAIN snapshot.prev.indices]
    /\ frame' = frame + 1
    /\ ran' = "extract_skins"
    /\ UNCHANGED <<limits, aux>>

extract_skins ==
    /\ frame < MaxFrames
    /\ \E sc \in Scenes : extract_scene(sc)

(***************************************************************************)
(* prepare_skins                                                           *)
(***************************************************************************)
\* Mutant of prepare_skins_uniform: reserves, but does not write the buffer.
prepare_skins_reserve_only(u) ==
    IF u.current_buffer.values = <<>>
    THEN u
    ELSE [u EXCEPT !.current_buffer =
            RawBufferVec_reserve(u.current_buffer, Len(u.current_buffer.values))]

\* Mutant of prepare_skins_uniform: writes prev_buffer as well.
prepare_skins_both(u) ==
    IF u.current_buffer.values = <<>>
    THEN u
    ELSE [current_buffer |-> RawBufferVec_write_buffer(u.current_buffer),
          prev_buffer    |-> RawBufferVec_write_buffer(u.prev_buffer)]

prepare_skins_uniform(u) ==
    IF u.current_buffer.values = <<>>
    THEN u
    ELSE LET len == Len(u.current_buffer.values)
         IN [u EXCEPT !.current_buffer =
                RawBufferVec_write_buffer(RawBufferVec_reserve(u.current_buffer, len))]

prepare_skins ==
    /\ uniform' = prepare_skins_uniform(uniform)
    /\ ran' = "prepare_skins"
    /\ UNCHANGED <<skin_indices, SKINS_USE_UNIFORM_BUFFERS, limits, scene, locals,
                   snapshot, frame, aux>>

(***************************************************************************)
(* skins_use_uniform_buffers called repeatedly.  Each call hands in the    *)
(* limits of the device it was given; the static cell decides whether the  *)
(* closure that reads them runs.                                           *)
(***************************************************************************)
MaxCalls == 4
LimitValues == {0, 1, 8}

call_skins_use_uniform_buffers ==
    /\ Len(detector.calls) < MaxCalls
    /\ \E l \in LimitValues :
       \E cell \in {skins_use_uniform_buffers(SKINS_USE_UNIFORM_BUFFERS, l)} :
           /\ limits' = l
           /\ SKINS_USE_UNIFORM_BUFFERS' = cell
           /\ detector' = [detector EXCEPT
                  !.calls = Append(@, [limits |-> l, returned |-> cell[1]]),
                  !.limit_reads =
                      @ + (IF OnceLock_runs_init(SKINS_USE_UNIFORM_BUFFERS) THEN 1 ELSE 0)]
    /\ UNCHANGED <<skin_indices, uniform, scene, locals, snapshot, frame, ran, world,
                   probe>>

(***************************************************************************)
(* skins_use_uniform_buffers called from several threads.  get_or_init     *)
(* first loads the cell; if it is unset the thread enters the cell's Once, *)
(* which lets one thread run the closure and store its value while the     *)
(* others wait for the cell to be set.                                     *)
(***************************************************************************)
NumThreads == 2
MaxThreadCalls == 2
Threads == 1..NumThreads

\* A racy lazy static: any thread that saw the cell unset runs the closure.
once_may_run_unguarded(running) == TRUE

\* The Once admits a thread to the closure only while no thread is running it.
once_may_run(running) == running = 0

thread_return(t, value) ==
    [detector EXCEPT !.pc[t] = "idle",
                     !.ncalls[t] = @ + 1,
                     !.returned = @ \cup {value}]

\* skins_use_uniform_buffers(render_device) is entered by thread t.
thread_call(t) ==
    /\ detector.pc[t] = "idle"
    /\ detector.ncalls[t] < MaxThreadCalls
    /\ \E l \in LimitValues :
           detector' = [detector EXCEPT !.pc[t] = "get", !.arg[t] = l]
    /\ UNCHANGED SKINS_USE_UNIFORM_BUFFERS

\* get_or_init: the load of the cell.
thread_get(t) ==
    /\ detector.pc[t] = "get"
    /\ detector' = IF OnceLock_runs_init(SKINS_USE_UNIFORM_BUFFERS)
                   THEN [detector EXCEPT !.pc[t] = "call_once"]
                   ELSE thread_return(t, SKINS_USE_UNIFORM_BUFFERS[1])
    /\ UNCHANGED SKINS_USE_UNIFORM_BUFFERS

\* get_or_init: entering the Once; a thread waits while another one runs the closure.
thread_call_once(t) ==
    /\ detector.pc[t] = "call_once"
    /\ IF ~OnceLock_runs_init(SKINS_USE_UNIFORM_BUFFERS)
       THEN detector' = thread_return(t, SKINS_USE_UNIFORM_BUFFERS[1])
       ELSE /\ once_may_run(detector.running)
            /\ detector' = [detector EXCEPT !.pc[t] = "closure", !.running = t]
    /\ UNCHANGED SKINS_USE_UNIFORM_BUFFERS

\* The closure: max_storage_buffers_per_shader_stage == 0.
thread_closure(t) ==
    /\ detector.pc[t] = "closure"
    /\ detector' = [detector EXCEPT !.pc[t] = "store",
                                    !.tmp[t] = (detector.arg[t] = 0),
                                    !.limit_reads = @ + 1]
    /\ UNCHANGED SKINS_USE_UNIFORM_BUFFERS

\* The value is stored, the Once completes, and the call returns the stored value.
thread_store(t) ==
    /\ detector.pc[t] = "store"
    /\ SKINS_USE_UNIFORM_BUFFERS' = <<detector.tmp[t]>>
    /\ detector' = [thread_return(t, detector.tmp[t]) EXCEPT
                        !.writes = @ + 1,
                        !.running = 0]

ThreadsNext ==
    /\ \E t \in Threads :
        \/ thread_call(t)
        \/ thread_get(t)
        \/ thread_call_once(t)
        \/ thread_closure(t)
        \/ thread_store(t)
    /\ UNCHANGED <<skin_indices, uniform, limits, scene, locals, snapshot, frame, ran,
                   world, probe>>

(***************************************************************************)
(* no_automatic_skin_batching.  The system only queues its try_insert      *)
(* commands; the queue is applied at a later point of the schedule, and    *)
(* other systems may change the main world in between.                     *)
(***************************************************************************)
NumBatchEntities == 3
BatchEntities == 1..NumBatchEntities

\* The entities matched by Query<Entity, (With<SkinnedMesh>, Without<NoAutomaticBatching>)>.
query_iter(w) ==
    { e \in BatchEntities : w.alive[e] /\ w.skinned[e] /\ ~w.exempt[e] }

\* The commands queued without the early return.
queued_commands_ungated(w, use_uniform) == query_iter(w)

\* The commands the system queues: none unless skins use uniform buffers.
queued_commands(w, use_uniform) ==
    IF ~use_uniform THEN {} ELSE query_iter(w)

\* try_insert(NoAutomaticBatching) applied for each queued entity: an entity
\* that no longer exists is skipped.
try_insert(w, queue) ==
    [e \in BatchEntities |-> w.exempt[e] \/ (e \in queue /\ w.alive[e])]

\* The system runs and returns; nothing is inserted yet.
no_automatic_skin_batching ==
    /\ ~world.pending
    /\ \E cell \in {skins_use_uniform_buffers(SKINS_USE_UNIFORM_BUFFERS, limits)} :
           /\ SKINS_USE_UNIFORM_BUFFERS' = cell
           /\ world' = [world EXCEPT
                            !.queue = queued_commands(world, cell[1]),
                            !.pending = TRUE,
                            !.ran = FALSE,
                            !.applied = {}]
    /\ UNCHANGED <<skin_indices, uniform, limits, scene, locals, snapshot, frame, ran,
                   detector, probe>>

\* The command queue of the system is applied and drained.
apply_commands ==
    /\ world.pending
    /\ world' = [world EXCEPT
                     !.exempt = try_insert(world, world.queue),
                     !.queue = {},
                     !.pending = FALSE,
                     !.ran = TRUE,
                     !.applied = world.queue]
    /\ UNCHANGED <<skin_indices, uniform, SKINS_USE_UNIFORM_BUFFERS, limits, scene,
                   locals, snapshot, frame, ran, detector, probe>>

\* Another system despawns an entity, or spawns it or changes its components;
\* this can happen between the system and the application of its commands.
main_world_change ==
    /\ \E e \in BatchEntities :
        \/ world' = [world EXCEPT !.alive[e] = FALSE, !.skinned[e] = FALSE,
                                  !.exempt[e] = FALSE, !.ran = FALSE, !.applied = {}]
        \/ \E s \in BOOLEAN : \E x \in BOOLEAN :
               world' = [world EXCEPT !.alive[e] = TRUE, !.skinned[e] = s,
                                      !.exempt[e] = x, !.ran = FALSE, !.applied = {}]
    /\ UNCHANGED <<skin_indices, uniform, SKINS_USE_UNIFORM_BUFFERS, limits, scene,
                   locals, snapshot, frame, ran, detector, probe>>

(***************************************************************************)
(* SkinIndex::new applied to a start position, 4294967296 / 64 = 67108864  *)
(* being the first position whose byte offset does not fit a u32.          *)
(***************************************************************************)
MaxStart == 64
StartPositions == (0..MaxStart) \cup { 67108864 + k : k \in 0..MaxStart }

SkinIndex_new_at_probe ==
    /\ probe.index = <<>>
    /\ probe' = [probe EXCEPT !.index = <<SkinIndex_new(probe.start)>>]
    /\ UNCHANGED <<skin_indices, uniform, SKINS_USE_UNIFORM_BUFFERS, limits, scene,
                   locals, snapshot, frame, ran, detector, world>>

(***************************************************************************)
(* One extraction over a wider scene.                                      *)
(***************************************************************************)
WideInstances == 3
WideScenes == [1..WideInstances -> InstanceInputs]

extract_skins_wide ==
    /\ frame = 0
    /\ \E sc \in WideScenes : extract_scene(sc)

(***************************************************************************)
(* SkinIndices::default(), SkinUniforms::from_world (which initialises the *)
(* OnceLock from the device limits).                                       *)
(***************************************************************************)
DetectorIdle ==
    [calls |-> <<>>, limit_reads |-> 0, writes |-> 0, running |-> 0, returned |-> {},
     pc     |-> [t \in Threads |-> "idle"],
     arg    |-> [t \in Threads |-> 0],
     tmp    |-> [t \in Threads |-> FALSE],
     ncalls |-> [t \in Threads |-> 0]]

WorldIdle ==
    [alive   |-> [e \in BatchEntities |-> FALSE],
     skinned |-> [e \in BatchEntities |-> FALSE],
     exempt  |-> [e \in BatchEntities |-> FALSE],
     queue   |-> {},
     pending |-> FALSE,
     ran     |-> FALSE,
     applied |-> {}]

ProbeIdle == [start |-> 0, index |-> <<>>]

RenderInit ==
    /\ skin_indices = [current |-> EmptyMap, prev |-> EmptyMap]
    /\ uniform = [current_buffer |-> RawBufferVec_new, prev_buffer |-> RawBufferVec_new]
    /\ scene = [e \in Entities |->
                  [visible |-> FALSE, loaded |-> TRUE, joints |-> 3, bindposes |-> 3,
                   missing |-> 0]]
    /\ locals = [last_start |-> 0, len |-> 0]
    /\ snapshot = [current |-> [indices |-> EmptyMap, buffer |-> <<>>],
                   prev    |-> [indices |-> EmptyMap, buffer |-> <<>>],
                   older   |-> {}]
    /\ frame = 0
    /\ ran = "init"

Init ==
    /\ limits \in {0, 8}
    /\ SKINS_USE_UNIFORM_BUFFERS = skins_use_uniform_buffers(OnceLock_new, limits)
    /\ RenderInit
    /\ detector = DetectorIdle
    /\ world = WorldIdle
    /\ probe = ProbeIdle

Next == extract_skins \/ prepare_skins

Spec == Init /\ [][Next]_vars

\* The render schedule: each frame runs extract_skins, then prepare_skins.
PipelineNext ==
    \/ ran # "extract_skins" /\ extract_skins
    \/ ran = "extract_skins" /\ prepare_skins

SpecPipeline == Init /\ [][PipelineNext]_vars

\* The program before SkinUniforms::from_world: the static cell is unset.
InitCalls ==
    /\ limits = 0
    /\ SKINS_USE_UNIFORM_BUFFERS = OnceLock_new
    /\ RenderInit
    /\ detector = DetectorIdle
    /\ world = WorldIdle
    /\ probe = ProbeIdle

SpecCalls == InitCalls /\ [][call_skins_use_uniform_buffers]_vars

SpecThreads == InitCalls /\ [][ThreadsNext]_vars

\* The main world holds any combination of the two components; no command is queued.
InitBatching ==
    /\ limits \in {0, 8}
    /\ SKINS_USE_UNIFORM_BUFFERS = skins_use_uniform_buffers(OnceLock_new, limits)
    /\ RenderInit
    /\ detector = DetectorIdle
    /\ world \in [alive   : {[e \in BatchEntities |-> TRUE]},
                  skinned : [BatchEntities -> BOOLEAN],
                  exempt  : [BatchEntities -> BOOLEAN],
                  queue   : {{}},
                  pending : {FALSE},
                  ran     : {FALSE},
                  applied : {{}}]
    /\ probe = ProbeIdle

BatchingNext == no_automatic_skin_batching \/ apply_commands \/ main_world_change

SpecBatching == InitBatching /\ [][BatchingNext]_vars

InitIndex ==
    /\ limits \in {0, 8}
    /\ SKINS_USE_UNIFORM_BUFFERS = skins_use_uniform_buffers(OnceLock_new, limits)
    /\ RenderInit
    /\ detector = DetectorIdle
    /\ world = WorldIdle
    /\ probe \in [start : StartPositions, index : {<<>>}]

SpecIndex == InitIndex /\ [][SkinIndex_new_at_probe]_vars

SpecWide == Init /\ [][extract_skins_wide]_vars

(***************************************************************************)
(* Vocabulary of the properties.                                           *)
(***************************************************************************)
current_values == uniform.current_buffer.values
prev_values == uniform.prev_buffer.values

\* The matrix index recorded for e in a map.
IndexIn(map, e) == SkinIndex_index(map[e])

\* The product of the kj-th joint of e and the kb-th bind pose of e.
MatrixOf(e, kj, kb) == affine_mul(JointEntity(e, kj), Bindpose(e, kb))

\* The instance whose joint a matrix comes from (0 for the zero matrix).
Owner(m) == (m \div 10000) \div 1000

Clamped(skin) == Min(skin.joints, MAX_JOINTS)

\* The joints of the skin that resolve.
ResolvedCount(skin) ==
    Cardinality({k \in 1..skin.joints : k # skin.missing})

\* The loop appends as many matrices as the clamped joint count.
PackingSucceeded(skin) ==
    Min(Min(ResolvedCount(skin), skin.bindposes), MAX_JOINTS) = Clamped(skin)

RECURSIVE SumClamped(_)
SumClamped(S) ==
    IF S = {} THEN 0
    ELSE LET e == CHOOSE x \in S : TRUE
         IN Clamped(scene[e]) + SumClamped(S \ {e})

\* The GPU buffer holds the CPU-side values.
Resident(b) ==
    /\ b.capacity >= Len(b.values)
    /\ SubSeq(b.gpu, 1, Len(b.values)) = b.values

\* C1: after an extraction, a visible instance with loaded bind poses one of
\* whose joints did not resolve has no entry in SkinIndices.current and no
\* matrix in current_buffer, whatever its joint count.
C1_PartialFailureAtomicity ==
    frame >= 1 =>
        \A e \in Entities :
            (scene[e].visible /\ scene[e].loaded /\ scene[e].missing # 0) =>
                /\ e \notin DOMAIN skin_indices.current
                /\ \A i \in 1..Len(current_values) : Owner(current_values[i]) # e

\* C2: after an extraction, for every instance with an entry at matrix index s
\* and every k below its clamped joint count, current_buffer[s + k] is the
\* world transform of its k-th joint times its k-th inverse bind pose.
C2_JointBindposePairing ==
    frame >= 1 =>
        \A e \in DOMAIN skin_indices.current :
            \A k \in 1..Clamped(scene[e]) :
                current_values[IndexIn(skin_indices.current, e) + k] = MatrixOf(e, k, k)

\* C3: after the N-th extraction, N >= 2, SkinIndices.prev and prev_buffer
\* equal SkinIndices.current and current_buffer as they were at the end of
\* extraction N-1, whether or not prepare_skins ran in between.
C3_SwapCorrectness ==
    frame >= 2 =>
        /\ skin_indices.prev = snapshot.prev.indices
        /\ prev_values = snapshot.prev.buffer

C3_Witness ==
    /\ frame = 3
    /\ DOMAIN skin_indices.prev = Entities
    /\ DOMAIN skin_indices.prev # snapshot.older
    /\ prev_values # current_values

\* C4: every entry of SkinIndices.current with matrix index s has
\* s + MAX_JOINTS <= current_buffer.len(), and every entry of
\* SkinIndices.prev has the same bound against prev_buffer.len().
C4_FullBindingFootprint ==
    /\ \A e \in DOMAIN skin_indices.current :
           IndexIn(skin_indices.current, e) + MAX_JOINTS <= Len(current_values)
    /\ \A e \in DOMAIN skin_indices.prev :
           IndexIn(skin_indices.prev, e) + MAX_JOINTS <= Len(prev_values)

C4_Witness ==
    /\ frame >= 2
    /\ DOMAIN skin_indices.current = Entities
    /\ DOMAIN skin_indices.prev = Entities
    /\ IndexIn(skin_indices.current, 2) > 0
    /\ IndexIn(skin_indices.prev, 2) > IndexIn(skin_indices.current, 2)

\* C5: in uniform-buffer fallback mode, the start index of every entry of
\* SkinIndices.current is a multiple of 4 (its byte offset a multiple of
\* 256), and so is the distance between the starts of any two entries.
C5_Alignment ==
    SKINS_USE_UNIFORM_BUFFERS = <<TRUE>> =>
        /\ \A e \in DOMAIN skin_indices.current :
            /\ IndexIn(skin_indices.current, e) % 4 = 0
            /\ skin_indices.current[e].byte_offset % 256 = 0
        /\ \A d, e \in DOMAIN skin_indices.current :
            IndexIn(skin_indices.current, d) <= IndexIn(skin_indices.current, e) =>
                (IndexIn(skin_indices.current, e) - IndexIn(skin_indices.current, d)) % 4 = 0

C5_Witness ==
    /\ SKINS_USE_UNIFORM_BUFFERS = <<TRUE>>
    /\ DOMAIN skin_indices.current = Entities
    /\ scene[1].joints = 3
    /\ IndexIn(skin_indices.current, 2) = 4

\* An instance has an entry, its first MAX_JOINTS joints are in the buffer
\* from its start on, and the buffer holds MAX_JOINTS matrices of it.
PackedTruncated(e) ==
    /\ e \in DOMAIN skin_indices.current
    /\ \A k \in 1..MAX_JOINTS :
           current_values[IndexIn(skin_indices.current, e) + k] = MatrixOf(e, k, k)
    /\ Cardinality({i \in 1..Len(current_values) : Owner(current_values[i]) = e})
           = MAX_JOINTS

\* C6 as stated: every visible instance with loaded bind poses, resolvable
\* joints and more than MAX_JOINTS joints gets exactly MAX_JOINTS matrices,
\* those of its first MAX_JOINTS joints, and an index entry.
C6_TruncationLaw_Original ==
    frame >= 1 =>
        \A e \in Entities :
            (/\ scene[e].visible /\ scene[e].loaded
             /\ scene[e].missing = 0
             /\ scene[e].joints > MAX_JOINTS) => PackedTruncated(e)

\* C6, amended: the same for every such instance whose inverse bind pose
\* collection holds at least MAX_JOINTS bind poses.
C6_TruncationLaw ==
    frame >= 1 =>
        \A e \in Entities :
            (/\ scene[e].visible /\ scene[e].loaded
             /\ scene[e].missing = 0
             /\ scene[e].joints > MAX_JOINTS
             /\ scene[e].bindposes >= MAX_JOINTS) => PackedTruncated(e)

C6_Witness ==
    /\ frame >= 1
    /\ \A e \in Entities :
        /\ scene[e].visible /\ scene[e].loaded /\ scene[e].missing = 0
        /\ scene[e].joints > MAX_JOINTS /\ scene[e].bindposes >= MAX_JOINTS
    /\ IndexIn(skin_indices.current, 2) = MAX_JOINTS

\* C7: with storage buffers, every packed instance starts where the clamped
\* joints of the packed instances before it end, the buffer length at the
\* end of the loop is the sum of the clamped joint counts of the packed
\* instances, and the last start still has MAX_JOINTS matrices after it.
C7_NoFallback ==
    (SKINS_USE_UNIFORM_BUFFERS = <<FALSE>> /\ frame >= 1) =>
        /\ \A e \in DOMAIN skin_indices.current :
               IndexIn(skin_indices.current, e)
                   = SumClamped({d \in DOMAIN skin_indices.current : d < e})
        /\ locals.len = SumClamped(DOMAIN skin_indices.current)
        /\ \A e \in DOMAIN skin_indices.current :
               Len(current_values) - IndexIn(skin_indices.current, e) >= MAX_JOINTS
        /\ Len(current_values) >= MAX_JOINTS

C7_Witness ==
    /\ SKINS_USE_UNIFORM_BUFFERS = <<FALSE>>
    /\ DOMAIN skin_indices.current = Entities
    /\ scene[1].joints = 3
    /\ IndexIn(skin_indices.current, 2) = 3
    /\ locals.len = 6

\* C8: after an extraction, an instance has an entry in SkinIndices.current
\* if and only if in this frame it was visible, its inverse bind poses were
\* resolved and its packing succeeded; no entry of two frames earlier stays.
C8_Membership ==
    frame >= 1 =>
        \A e \in Entities :
            (e \in DOMAIN skin_indices.current)
                <=> (scene[e].visible /\ scene[e].loaded /\ PackingSucceeded(scene[e]))

C8_Witness ==
    /\ frame = 3
    /\ \E e \in snapshot.older :
        /\ ~scene[e].visible
        /\ e \notin DOMAIN skin_indices.current
    /\ \E e \in snapshot.older :
        /\ scene[e].visible /\ scene[e].loaded /\ scene[e].missing # 0
        /\ e \notin DOMAIN skin_indices.current

\* C9: when every frame runs extract_skins and then prepare_skins, from the
\* second frame on the GPU contents of prev_buffer are its CPU-side contents.
C9_PrevBufferResident ==
    frame >= 2 => Resident(uniform.prev_buffer)

C9_Witness ==
    /\ frame = 3
    /\ ran = "extract_skins"
    /\ DOMAIN skin_indices.prev # {}
    /\ Resident(uniform.prev_buffer)
    /\ ~Resident(uniform.current_buffer)

\* C10: prepare_skins changes nothing when current_buffer is empty; otherwise
\* afterwards the GPU buffer of current_buffer has capacity >= its length and
\* holds its CPU-side contents.  Either way the CPU contents of
\* current_buffer, prev_buffer (CPU and GPU) and both index maps are unchanged.
C10_PrepareContract ==
    [][ran' = "prepare_skins" =>
        /\ (current_values = <<>> =>
               uniform' = uniform /\ skin_indices' = skin_indices)
        /\ (current_values # <<>> => Resident(uniform.current_buffer)')
        /\ uniform.current_buffer.values' = current_values
        /\ uniform.prev_buffer' = uniform.prev_buffer
        /\ skin_indices' = skin_indices]_vars

C10_Witness ==
    /\ ran = "prepare_skins"
    /\ current_values # <<>>
    /\ Resident(uniform.current_buffer)
    /\ DOMAIN skin_indices.prev # {}
    /\ ~Resident(uniform.prev_buffer)

\* C11: after an extraction that packs no instance, SkinIndices.current is
\* empty and current_buffer is exactly MAX_JOINTS zero matrices; after every
\* extraction current_buffer holds at least MAX_JOINTS > 0 matrices, so
\* prepare_skins finds it empty only before the first extraction.
C11_EmptyScene ==
    /\ MAX_JOINTS > 0
    /\ frame >= 1 =>
        /\ Len(current_values) >= MAX_JOINTS
        /\ current_values # <<>>
        /\ (\A e \in Entities :
                ~(scene[e].visible /\ scene[e].loaded /\ PackingSucceeded(scene[e])))
            => /\ skin_indices.current = EmptyMap
               /\ current_values = [k \in 1..MAX_JOINTS |-> Mat4_ZERO]
    /\ current_values = <<>> => frame = 0

C11_Witness ==
    /\ frame = 3
    /\ scene[1].visible /\ scene[1].loaded /\ scene[1].missing # 0
    /\ ~scene[2].loaded
    /\ skin_indices.current = EmptyMap
    /\ Len(current_values) = MAX_JOINTS
    /\ snapshot.older # {}

\* What an extraction of scene sc packs into an empty map and an empty buffer.
PackedFromScratch(sc, use_uniform) ==
    Bind(extract_loop([buffer |-> <<>>, current |-> EmptyMap, last_start |-> 0],
                      1, sc, use_uniform),
         LAMBDA st : [indices |-> st.current,
                      buffer  |-> pad_out(st.buffer, st.last_start)])

\* C12: SkinIndices.current and current_buffer after an extraction are a
\* function of that frame's scene and of the capability flag alone, never of
\* earlier frames: they are what the extraction packs from scratch.  So an
\* instance skipped in one frame is packed in the next if everything resolves.
C12_NoPersistedState ==
    frame >= 1 =>
        Bind(PackedFromScratch(scene, SKINS_USE_UNIFORM_BUFFERS[1]), LAMBDA r :
            /\ skin_indices.current = r.indices
            /\ current_values = r.buffer)

C12_Witness ==
    /\ frame = 3
    /\ snapshot.older = Entities
    /\ skin_indices.prev = EmptyMap
    /\ DOMAIN skin_indices.current = Entities
    /\ \A e \in Entities : scene[e].missing = 0

\* The positions of current_buffer that hold the clamped joints of e.
Region(e) ==
    (IndexIn(skin_indices.current, e) + 1)
        .. (IndexIn(skin_indices.current, e) + Clamped(scene[e]))

\* C17: after an extraction the regions of the instances with entries are
\* pairwise disjoint and lie in the buffer in iteration order, and every
\* slot of current_buffer outside them holds the zero matrix.
C17_BufferLayout ==
    frame >= 1 =>
        /\ \A d, e \in DOMAIN skin_indices.current :
            d < e => /\ IndexIn(skin_indices.current, d) <= IndexIn(skin_indices.current, e)
                     /\ Region(d) \cap Region(e) = {}
        /\ \A e \in DOMAIN skin_indices.current :
            Region(e) \subseteq 1..Len(current_values)
        /\ \A i \in 1..Len(current_values) :
            (\A e \in DOMAIN skin_indices.current : i \notin Region(e))
                => current_values[i] = Mat4_ZERO

C17_Witness ==
    /\ SKINS_USE_UNIFORM_BUFFERS = <<TRUE>>
    /\ frame = 3
    /\ DOMAIN skin_indices.current = {2}
    /\ scene[1].visible /\ scene[1].loaded /\ scene[1].missing # 0
    /\ scene[2].joints = 3
    /\ IndexIn(skin_indices.current, 2) = 0
    /\ \A k \in 1..3 : current_values[k] = MatrixOf(2, k, k)
    /\ current_values[4] = Mat4_ZERO
    /\ Len(current_values) = MAX_JOINTS

(***************************************************************************)
(* C13: once skins_use_uniform_buffers has returned a value, every later   *)
(* call returns that same value whatever limits it is handed; the value is *)
(* the first call's max_storage_buffers_per_shader_stage = 0, and the      *)
(* limits are read at most once.                                           *)
(***************************************************************************)
C13_DetectionIdempotent ==
    /\ \A i \in 1..Len(detector.calls) :
           detector.calls[i].returned = detector.calls[1].returned
    /\ detector.calls # <<>> =>
           /\ detector.calls[1].returned = (detector.calls[1].limits = 0)
           /\ SKINS_USE_UNIFORM_BUFFERS = <<detector.calls[1].returned>>
    /\ detector.limit_reads <= 1

C13_Witness ==
    /\ Len(detector.calls) >= 3
    /\ detector.calls[1].limits = 0
    /\ detector.calls[2].limits = 8
    /\ detector.calls[3].limits = 1
    /\ detector.calls[3].returned = TRUE
    /\ detector.limit_reads = 1

(***************************************************************************)
(* C14: when several threads call skins_use_uniform_buffers before the     *)
(* cell is set, the cell is written exactly once and every call returns    *)
(* the one stored value.                                                   *)
(***************************************************************************)
C14_ConcurrentDetection ==
    /\ detector.writes <= 1
    /\ detector.limit_reads <= 1
    /\ detector.writes = 1 <=> SKINS_USE_UNIFORM_BUFFERS # OnceLock_new
    /\ detector.returned # {} =>
           /\ SKINS_USE_UNIFORM_BUFFERS # OnceLock_new
           /\ detector.returned = {SKINS_USE_UNIFORM_BUFFERS[1]}

C14_Witness ==
    /\ detector.arg[1] = 0
    /\ detector.arg[2] = 8
    /\ detector.ncalls[1] = 1
    /\ detector.ncalls[2] = 1
    /\ detector.pc[1] = "idle"
    /\ detector.pc[2] = "idle"
    /\ detector.writes = 1
    /\ detector.returned = {FALSE}
    /\ SKINS_USE_UNIFORM_BUFFERS = <<FALSE>>

(***************************************************************************)
(* C15, as stated: when the commands of no_automatic_skin_batching are     *)
(* applied, with the fallback active every entity that has a SkinnedMesh   *)
(* is marked NoAutomaticBatching; with the fallback inactive nothing is    *)
(* marked; no entity without a SkinnedMesh is marked and no marker is      *)
(* removed.                                                                *)
(***************************************************************************)
C15_BatchingGate_Original ==
    [][(world.pending /\ ~world'.pending) =>
         /\ SKINS_USE_UNIFORM_BUFFERS[1] =>
                \A e \in BatchEntities :
                    (world'.alive[e] /\ world'.skinned[e]) => world'.exempt[e]
         /\ ~SKINS_USE_UNIFORM_BUFFERS[1] => world'.exempt = world.exempt
         /\ \A e \in BatchEntities :
                /\ (world'.exempt[e] /\ ~world.exempt[e]) => world'.skinned[e]
                /\ world.exempt[e] => world'.exempt[e]]_vars

(***************************************************************************)
(* C15, amended: the system queues a command for exactly the entities that *)
(* have a SkinnedMesh and no NoAutomaticBatching when it runs, and for     *)
(* none when the fallback is inactive, and changes no component itself;    *)
(* the application of the queue marks exactly the queued entities that     *)
(* still exist, whatever happened to them in between, and removes no       *)
(* marker and no SkinnedMesh.                                              *)
(***************************************************************************)
C15_BatchingGate ==
    [][/\ (~world.pending /\ world'.pending) =>
           /\ SKINS_USE_UNIFORM_BUFFERS'[1] = (limits = 0)
           /\ SKINS_USE_UNIFORM_BUFFERS'[1] =>
                  \A e \in BatchEntities :
                      e \in world'.queue <=>
                          (world.alive[e] /\ world.skinned[e] /\ ~world.exempt[e])
           /\ ~SKINS_USE_UNIFORM_BUFFERS'[1] => world'.queue = {}
           /\ world'.exempt = world.exempt
           /\ world'.skinned = world.skinned
           /\ world'.alive = world.alive
       /\ (world.pending /\ ~world'.pending) =>
           /\ \A e \in BatchEntities :
                  /\ (e \in world.queue /\ world.alive[e]) => world'.exempt[e]
                  /\ (world'.exempt[e] /\ ~world.exempt[e]) => e \in world.queue
                  /\ world.exempt[e] => world'.exempt[e]
                  /\ ~world.alive[e] => ~world'.exempt[e]
           /\ ~SKINS_USE_UNIFORM_BUFFERS[1] => world'.exempt = world.exempt
           /\ world'.skinned = world.skinned
           /\ world'.alive = world.alive
           /\ world'.queue = {}]_vars

\* The commands were applied after entity 1 lost its SkinnedMesh, entity 2 gained
\* one and entity 3 was despawned.
C15_Witness ==
    /\ world.ran
    /\ SKINS_USE_UNIFORM_BUFFERS = <<TRUE>>
    /\ world.applied = {1, 3}
    /\ world.alive[1] /\ ~world.skinned[1] /\ world.exempt[1]
    /\ world.alive[2] /\ world.skinned[2] /\ ~world.exempt[2]
    /\ ~world.alive[3]

(***************************************************************************)
(* C16: for an instance packed at buffer position start, the byte_offset   *)
(* of its SkinIndex is start * 64, a multiple of 64, and index() returns   *)
(* start, on every start position the buffer can reach.                    *)
(***************************************************************************)
C16_IndexEncoding ==
    probe.index # <<>> =>
        /\ probe.index[1].byte_offset % MAT4_SIZE = 0
        /\ probe.index[1].byte_offset \div MAT4_SIZE = probe.start
        /\ SkinIndex_index(probe.index[1]) = probe.start

(***************************************************************************)
(* C18: extract_skins completes on every scene with last_start at most the *)
(* buffer length before the trailing padding, so that the subtraction      *)
(* buffer.len() - last_start does not underflow and the trailing loop      *)
(* pushes at most MAX_JOINTS matrices.                                     *)
(***************************************************************************)
C18_NoUnderflow ==
    frame >= 1 =>
        /\ locals.last_start <= locals.len
        /\ Len(current_values) >= locals.len
        /\ Len(current_values) - locals.len <= MAX_JOINTS
        /\ Len(current_values) - locals.len =
               Max(0, MAX_JOINTS - (locals.len - locals.last_start))
        /\ DOMAIN scene = 1..WideInstances

C18_Witness ==
    /\ frame = 1
    /\ DOMAIN skin_indices.current = {1, 2}
    /\ scene[3].visible /\ scene[3].loaded /\ scene[3].missing # 0
    /\ scene[3].joints <= MAX_JOINTS
    /\ locals.last_start > 0
    /\ locals.len > locals.last_start
    /\ Len(current_values) = locals.last_start + MAX_JOINTS

====
